---- MODULE Spec2Model ----
(***************************************************************************)
(* WaveGrad diffusion process (model/diffusion_process.py, class WaveGrad). *)
(*                                                                         *)
(* Tensors are sequences of fixed-point numbers (SCALE units = 1.0); the   *)
(* batch dimension and the mel-channel dimension are of size one and are   *)
(* left out, so a waveform is a sequence of samples and a mel-spectrogram  *)
(* a sequence of frames.  The torch random generator is a deterministic    *)
(* stream: a state, a value read from the state, and a successor state.    *)
(***************************************************************************)
EXTENDS Integers, Sequences, FiniteSets, TLC

VARIABLES
    obj,      \* the WaveGrad object (none before __init__, an error if it raised)
    pc,       \* where the running call stands
    call,     \* the public method called, with its arguments
    rng,      \* state of the torch random generator
    ys, t,    \* locals of sample
    cur,      \* the mels argument of the running sample call
    caller,   \* who called sample: the environment or sample_subregions_parallel
    sval,     \* what the last sample call returned
    splits, k, recons,   \* locals of sample_subregions_parallel
    starts,   \* the generator state at the start of each chunk's sample call
    trace,    \* the reverse steps of the running sample call, in the order taken
    ret       \* what the public method returned or raised

vars == <<obj, pc, call, rng, ys, t, cur, caller, sval, splits, k, recons, starts, trace, ret>>

---------------------------------------------------------------------------
(* Bounds of the exploration *)

MaxIter == 3        \* n_iter ranges over -1..MaxIter
MaxT == 3           \* mel-spectrograms have 1..MaxT frames
MaxSeed == 1        \* seeds 0..MaxSeed
RngMod == 7         \* number of states of the random stream

---------------------------------------------------------------------------
(* Float arithmetic: fixed point, with one value for inf/nan *)

\* 1.0 in fixed point: values are kept to three decimals
SCALE == 1000

NonFinite == 0 - 1000000000

IsFinite(a) == a # NonFinite

Add(a, b) == IF IsFinite(a) /\ IsFinite(b) THEN a + b ELSE NonFinite

Sub(a, b) == IF IsFinite(a) /\ IsFinite(b) THEN a - b ELSE NonFinite

Mul(a, b) == IF IsFinite(a) /\ IsFinite(b) THEN (a * b) \div SCALE ELSE NonFinite

Div(a, b) == IF IsFinite(a) /\ IsFinite(b) /\ b # 0 THEN (a * SCALE) \div b ELSE NonFinite

RECURSIVE SqrtSearch(_, _, _)
SqrtSearch(n, lo, hi) ==
    IF lo >= hi THEN lo
    ELSE LET mid == (lo + hi + 1) \div 2
         IN IF mid * mid <= n THEN SqrtSearch(n, mid, hi) ELSE SqrtSearch(n, lo, mid - 1)

Sqrt(a) == IF IsFinite(a) /\ a >= 0 THEN SqrtSearch(a * SCALE, 0, 40 * SCALE) ELSE NonFinite

Max(a, b) == IF IsFinite(a) /\ IsFinite(b) THEN (IF a >= b THEN a ELSE b) ELSE NonFinite

Clamp(a, lo, hi) == IF a < lo THEN lo ELSE IF a > hi THEN hi ELSE a

\* log x is kept as the record [ln |-> x]; 0.5 * log x = log sqrt(x); exp(log x) = x
Log(x) == [ln |-> x]

HalfLog(l) == [ln |-> Sqrt(l.ln)]

Exp(l) == l.ln

AllFiniteSeq(s) == \A i \in 1..Len(s) : IsFinite(s[i])

---------------------------------------------------------------------------
(* Python indexing of a 0-based array of length len with index i *)

\* indexing without Python's negative indices
InRange_NoWrap(len, i) == i >= 0 /\ i < len

InRange(len, i) == i >= 0 - len /\ i < len

At(s, i) == s[IF i >= 0 THEN i + 1 ELSE Len(s) + i + 1]

---------------------------------------------------------------------------
(* __init__ : the noise schedule *)

Linspace(b0, b1, n) ==
    [i \in 1..n |-> IF n = 1 THEN b0 ELSE b0 + ((i - 1) * (b1 - b0)) \div (n - 1)]

RECURSIVE Cumprod(_, _)
Cumprod(s, n) ==
    IF n = 0 THEN <<>>
    ELSE IF n = 1 THEN <<s[1]>>
    ELSE LET p == Cumprod(s, n - 1) IN Append(p, Mul(p[n - 1], s[n]))

RECURSIVE Product(_)
Product(s) == IF s = <<>> THEN 1 ELSE Head(s) * Product(Tail(s))

\* the floor 1e-20 of line 49: the least positive value of the fixed point
VarFloor == 1

\* the assertion left out
FactorAssert_Dropped(total_factor, hop_length) == TRUE

\* the assertion of line 60
FactorAssert(total_factor, hop_length) == total_factor = hop_length

\* torch.linspace raises for a negative number of steps
LinspaceAccepts(n) == n >= 0

Schedule(cfg) ==
    LET n == cfg.n_iter
        betas == Linspace(cfg.betas_range[1], cfg.betas_range[2], n)
        alphas == [i \in 1..n |-> SCALE - betas[i]]
        alphas_cumprod == Cumprod(alphas, n)
        alphas_cumprod_prev == <<SCALE>> \o SubSeq(alphas_cumprod, 1, n - 1)
        alphas_cumprod_prev_with_last == <<SCALE>> \o alphas_cumprod
        posterior_variance ==
            [i \in 1..n |-> Div(Mul(betas[i], SCALE - alphas_cumprod_prev[i]),
                                SCALE - alphas_cumprod[i])]
    IN [ n_iter |-> n,
         betas |-> betas,
         alphas |-> alphas,
         alphas_cumprod |-> alphas_cumprod,
         alphas_cumprod_prev |-> alphas_cumprod_prev,
         sqrt_alphas_cumprod_prev |-> [i \in 1..(n + 1) |-> Sqrt(alphas_cumprod_prev_with_last[i])],
         sqrt_alphas_cumprod |-> [i \in 1..n |-> Sqrt(alphas_cumprod[i])],
         sqrt_recip_alphas_cumprod |->
             [i \in 1..n |-> Sqrt(Div(SCALE, alphas_cumprod[i]))],
         sqrt_recipm1_alphas_cumprod |->
             [i \in 1..n |-> Sqrt(Sub(Div(SCALE, alphas_cumprod[i]), SCALE))],
         posterior_log_variance_clipped |->
             [i \in 1..n |-> Log(Max(posterior_variance[i], VarFloor))],
         posterior_mean_coef1 |->
             [i \in 1..n |-> Div(Mul(betas[i], Sqrt(alphas_cumprod_prev[i])),
                                 SCALE - alphas_cumprod[i])],
         posterior_mean_coef2 |->
             [i \in 1..n |-> Div(Mul(SCALE - alphas_cumprod_prev[i], Sqrt(alphas[i])),
                                 SCALE - alphas_cumprod[i])] ]

NoObject == [state |-> "none"]

WaveGradInit(cfg) ==
    IF ~LinspaceAccepts(cfg.n_iter)
    THEN [state |-> "error", error |-> "RuntimeError", cfg |-> cfg]
    ELSE IF ~FactorAssert(Product(cfg.factors), cfg.hop_length)
    THEN [state |-> "error", error |-> "AssertionError", cfg |-> cfg]
    ELSE [state |-> "ok", error |-> "none", cfg |-> cfg,
          n_iter |-> cfg.n_iter,
          mel_segment_length |-> cfg.segment_length \div cfg.hop_length,
          total_factor |-> Product(cfg.factors),
          sch |-> Schedule(cfg)]

---------------------------------------------------------------------------
(* Optional arguments (None or a value) and results of calls *)

None == [some |-> FALSE]

Some(x) == [some |-> TRUE, v |-> x]

Raise(e) == [err |-> e]

Ok(fields) == [err |-> "none"] @@ fields

---------------------------------------------------------------------------
(* The random generator behind torch.randn / torch.randn_like *)

NoiseOf(r) == ((r * 700) % 2001) - SCALE

NextRng(r) == (r + 1) % RngMod

RECURSIVE Randn(_, _)
Randn(r, n) ==
    IF n = 0 THEN [vals |-> <<>>, rng |-> r]
    ELSE LET rest == Randn(NextRng(r), n - 1)
         IN [vals |-> <<NoiseOf(r)>> \o rest.vals, rng |-> rest.rng]

Zeros(n) == [i \in 1..n |-> 0]

---------------------------------------------------------------------------
(* The noise predictor self.nn: any deterministic map of (mels, y, noise_level) *)
(* to a tensor of y's shape                                                       *)

NN(o, mels, y, noise_level) ==
    [i \in 1..Len(y) |->
        Add(Add(Mul(noise_level, y[i]), mels[((i - 1) \div o.total_factor) + 1]),
            mels[Len(mels)] \div 2)]

---------------------------------------------------------------------------
(* q_sample, line 87 *)

QSampleOutputs(c, y_0, eps) ==
    [i \in 1..Len(y_0) |-> Add(Mul(c, y_0[i]), Mul(Sub(SCALE, Mul(c, c)), eps[i]))]

\* lines 82-84: the noise level is drawn exactly when eps is None
DrawsNoiseLevel(level, eps) == ~eps.some

\* lines 85-86
DrawsEps(level, eps) == ~eps.some

\* sample_continious_noise_level for one batch entry: the values
\* np.random.uniform(table[s-1], table[s]) is explored at
NoiseLevelChoices(o, s) ==
    LET lo == At(o.sch.sqrt_alphas_cumprod_prev, s - 1)
        hi == At(o.sch.sqrt_alphas_cumprod_prev, s)
    IN {lo, (lo + hi) \div 2}

---------------------------------------------------------------------------
(* The reverse step *)

PredictStartFromNoise(o, y, tt, eps) ==
    IF ~InRange(Len(o.sch.sqrt_recip_alphas_cumprod), tt) THEN Raise("IndexError")
    ELSE Ok([val |-> [i \in 1..Len(y) |->
                Sub(Mul(At(o.sch.sqrt_recip_alphas_cumprod, tt), y[i]),
                    Mul(At(o.sch.sqrt_recipm1_alphas_cumprod, tt), eps[i]))]])

QPosterior(o, y_start, y, tt) ==
    IF ~InRange(Len(o.sch.posterior_mean_coef1), tt) THEN Raise("IndexError")
    ELSE Ok([mean |-> [i \in 1..Len(y) |->
                Add(Mul(At(o.sch.posterior_mean_coef1, tt), y_start[i]),
                    Mul(At(o.sch.posterior_mean_coef2, tt), y[i]))],
             logvar |-> At(o.sch.posterior_log_variance_clipped, tt)])

PMeanVariance(o, mels, y, tt, clip_denoised) ==
    IF ~InRange(Len(o.sch.sqrt_alphas_cumprod_prev), tt) THEN Raise("IndexError")
    ELSE LET noise_level == At(o.sch.sqrt_alphas_cumprod_prev, tt)
             eps_recon == NN(o, mels, y, noise_level)
             y_recon == PredictStartFromNoise(o, y, tt, eps_recon)
         IN IF y_recon.err # "none" THEN y_recon
            ELSE QPosterior(o,
                     IF clip_denoised
                     THEN [i \in 1..Len(y) |-> Clamp(y_recon.val[i], 0 - SCALE, SCALE)]
                     ELSE y_recon.val,
                     y, tt)

\* noise at the last step too
DrawsNoise_AtZeroToo(tt) == tt >= 0

\* line 119: fresh noise when t > 0, zeros otherwise
DrawsNoise(tt) == tt > 0

ComputeInverseDynamics(o, mels, y, tt, clip_denoised, r) ==
    LET mv == PMeanVariance(o, mels, y, tt, clip_denoised)
    IN IF mv.err # "none" THEN mv
       ELSE LET draw == IF DrawsNoise(tt) THEN Randn(r, Len(y))
                        ELSE [vals |-> Zeros(Len(y)), rng |-> r]
                std == Exp(HalfLog(mv.logvar))
            IN Ok([val |-> [i \in 1..Len(y) |-> Add(mv.mean[i], Mul(draw.vals[i], std))],
                   z |-> draw.vals, mean |-> mv.mean, rng |-> draw.rng])

\* sample_continious_noise_level: every outcome explored for one batch entry
SampleContiniousNoiseLevel(o) ==
    IF o.n_iter < 1 THEN {Raise("ValueError")}
    ELSE {Ok([val |-> c]) : c \in UNION {NoiseLevelChoices(o, s) : s \in 1..o.n_iter}}

\* q_sample: every outcome, r being the generator state at the call
QSample(o, y_0, level, eps, r) ==
    LET lvls == IF DrawsNoiseLevel(level, eps) THEN SampleContiniousNoiseLevel(o)
                ELSE {IF level.some THEN Ok([val |-> level.v]) ELSE Raise("TypeError")}
        draw == IF DrawsEps(level, eps) THEN Randn(r, Len(y_0))
                ELSE [vals |-> eps.v, rng |-> r]
    IN {IF l.err # "none" THEN l
        ELSE Ok([val |-> QSampleOutputs(l.val, y_0, draw.vals),
                 level |-> l.val, eps |-> draw.vals, rng |-> draw.rng]) : l \in lvls}

Abs(a) == IF a < 0 THEN 0 - a ELSE a

RECURSIVE SumSeq(_)
SumSeq(s) == IF s = <<>> THEN 0 ELSE Head(s) + SumSeq(Tail(s))

L1Loss(a, b) == SumSeq([i \in 1..Len(a) |-> Abs(a[i] - b[i])]) \div Len(a)

\* compute_loss: every outcome
ComputeLoss(o, mels, y_0, r) ==
    LET draw == Randn(r, Len(y_0))
    IN UNION {IF l.err # "none" THEN {l}
              ELSE {IF q.err # "none" THEN q
                    ELSE Ok([val |-> L1Loss(NN(o, mels, q.val, l.val), draw.vals),
                             level |-> q.level, y_noisy |-> q.val, rng |-> draw.rng])
                    : q \in QSample(o, y_0, Some(l.val), Some(draw.vals), draw.rng)}
              : l \in SampleContiniousNoiseLevel(o)}

---------------------------------------------------------------------------
(* sample and sample_subregions_parallel *)

\* line 134
InitialT(n_iter) == n_iter - 1

\* line 135
LoopCond(tt) == tt >= 0

\* a step skipped
NextT_Skip(tt) == tt - 2

\* line 138
NextT(tt) == tt - 1

\* the initial noise left out of the stored states
ReturnValue_NoInitial(states, store) ==
    IF store THEN Tail(states) ELSE states[Len(states)]

\* line 139
ReturnValue(states, store) == IF store THEN states ELSE states[Len(states)]

\* line 154: torch.split(split_size) along the frame axis
Split(mels, seglen) ==
    LET n == IF Len(mels) = 0 THEN 1 ELSE (Len(mels) + seglen - 1) \div seglen
    IN [i \in 1..n |->
          SubSeq(mels, (i - 1) * seglen + 1,
                 IF i * seglen < Len(mels) THEN i * seglen ELSE Len(mels))]

\* every call fed the first split
ChunkInput_First(chunks, i) == chunks[1]

\* line 156: the split handed to the i-th sample call
ChunkInput(chunks, i) == chunks[i]

RECURSIVE Concat(_)
Concat(ss) == IF ss = <<>> THEN <<>> ELSE Head(ss) \o Concat(Tail(ss))

RECURSIVE ConcatReversed(_)
ConcatReversed(ss) == IF ss = <<>> THEN <<>> ELSE ConcatReversed(Tail(ss)) \o Head(ss)

\* the chunks joined in reverse order
Cat_Reversed(rs, store) ==
    IF store
    THEN [j \in 1..Len(rs[1]) |-> ConcatReversed([i \in 1..Len(rs) |-> rs[i][j]])]
    ELSE ConcatReversed(rs)

\* line 161: torch.cat(recons, dim=-1); with stored states each recon is a
\* stack of n_iter+1 waveforms and the last axis is still the time axis
Cat(rs, store) ==
    IF store
    THEN [j \in 1..Len(rs[1]) |-> Concat([i \in 1..Len(rs) |-> rs[i][j]])]
    ELSE Concat(rs)

\* sample as a function of its inputs and of the generator state r it starts from
RECURSIVE SampleLoop(_, _, _, _, _)
SampleLoop(o, mels, states, tt, r) ==
    IF ~LoopCond(tt) THEN [ys |-> states, rng |-> r]
    ELSE LET res == ComputeInverseDynamics(o, mels, states[Len(states)], tt, TRUE, r)
         IN SampleLoop(o, mels, Append(states, res.val), NextT(tt), res.rng)

Sample(o, mels, store, r) ==
    LET draw == Randn(r, Len(mels) * o.total_factor)
        run == SampleLoop(o, mels, <<draw.vals>>, InitialT(o.n_iter), draw.rng)
    IN [val |-> ReturnValue(run.ys, store), rng |-> run.rng]

---------------------------------------------------------------------------
(* Inputs explored *)

NIters == (0 - 1)..MaxIter

BetaRanges == {<<100, 200>>, <<360, 500>>, <<500, 360>>, <<0, 500>>, <<500, 1500>>}

Configs == [n_iter : NIters, betas_range : BetaRanges, segment_length : {2, 5},
            hop_length : {2, 3}, factors : {<<2>>}]

Seeds == 0..MaxSeed

MelVals == {0, 500}

Mels(len) == [1..len -> MelVals]

SigVals == {0 - 1000, 0, 700}

Signals(len) == {[i \in 1..len |-> IF i % 2 = 1 THEN a ELSE 500 - a] : a \in SigVals}

Levels == {None} \cup {Some(c) : c \in {0, 600, 800, SCALE}}

Steps == (0 - MaxIter - 1)..(MaxIter + 1)

FiniteSchedule(o) ==
    /\ AllFiniteSeq(o.sch.sqrt_alphas_cumprod_prev)
    /\ AllFiniteSeq(o.sch.sqrt_recip_alphas_cumprod)
    /\ AllFiniteSeq(o.sch.sqrt_recipm1_alphas_cumprod)
    /\ AllFiniteSeq(o.sch.posterior_mean_coef1)
    /\ AllFiniteSeq(o.sch.posterior_mean_coef2)
    /\ \A i \in 1..o.n_iter : IsFinite(o.sch.posterior_log_variance_clipped[i].ln)

\* methods are called on constructed objects whose tables hold numbers
Usable == obj.state = "ok" /\ FiniteSchedule(obj)

---------------------------------------------------------------------------
(* The state machine *)

Init ==
    /\ obj = NoObject
    /\ pc = "new"
    /\ call = [op |-> "none"]
    /\ rng = 0
    /\ ys = <<>>
    /\ t = 0
    /\ cur = <<>>
    /\ caller = "none"
    /\ sval = <<>>
    /\ splits = <<>>
    /\ k = 0
    /\ recons = <<>>
    /\ starts = <<>>
    /\ trace = <<>>
    /\ ret = [err |-> "pending"]

Construct ==
    /\ pc = "new"
    /\ \E cfg \in Configs :
          /\ obj' = WaveGradInit(cfg)
          /\ pc' = IF obj'.state = "ok" THEN "idle" ELSE "failed"
    /\ UNCHANGED <<call, rng, ys, t, cur, caller, sval, splits, k, recons, starts, trace, ret>>

\* lines 131-134: the first state is fresh noise
StartSample(mels, r) ==
    LET draw == Randn(r, Len(mels) * obj.total_factor)
    IN /\ ys' = <<draw.vals>>
       /\ rng' = draw.rng
       /\ t' = InitialT(obj.n_iter)
       /\ cur' = mels
       /\ trace' = <<>>
       /\ pc' = "sample"

CallSample ==
    /\ pc = "idle" /\ Usable
    /\ \E len \in 1..MaxT : \E mels \in Mels(len) : \E store \in BOOLEAN : \E seed \in Seeds :
          /\ call' = [op |-> "sample", mels |-> mels, store |-> store, seed |-> seed]
          /\ StartSample(mels, seed)
    /\ caller' = "top"
    /\ UNCHANGED <<obj, sval, splits, k, recons, starts, ret>>

\* lines 135-138: one turn of the loop
SampleStep ==
    /\ pc = "sample" /\ LoopCond(t)
    /\ LET y == ys[Len(ys)]
           r == ComputeInverseDynamics(obj, cur, y, t, TRUE, rng)
       IN /\ r.err = "none"
          /\ ys' = Append(ys, r.val)
          /\ rng' = r.rng
          /\ trace' = Append(trace, [t |-> t, mels |-> cur, clip |-> TRUE, yin |-> y,
                                     yout |-> r.val, z |-> r.z, mean |-> r.mean,
                                     rng0 |-> rng, rng1 |-> r.rng])
    /\ t' = NextT(t)
    /\ UNCHANGED <<obj, pc, call, cur, caller, sval, splits, k, recons, starts, ret>>

\* line 139
SampleReturn ==
    /\ pc = "sample" /\ ~LoopCond(t)
    /\ sval' = ReturnValue(ys, call.store)
    /\ pc' = IF caller = "top" THEN "done" ELSE "collect"
    /\ ret' = IF caller = "top" THEN Ok([val |-> sval']) ELSE ret
    /\ UNCHANGED <<obj, call, rng, ys, t, cur, caller, splits, k, recons, starts, trace>>

\* lines 153-155
CallSubregions ==
    /\ pc = "idle" /\ Usable /\ obj.mel_segment_length > 0
    /\ \E len \in 1..MaxT : \E mels \in Mels(len) : \E store \in BOOLEAN : \E seed \in Seeds :
          /\ call' = [op |-> "sample_subregions_parallel", mels |-> mels,
                      store |-> store, seed |-> seed]
          /\ splits' = Split(mels, obj.mel_segment_length)
          /\ rng' = seed
    /\ recons' = <<>>
    /\ starts' = <<>>
    /\ k' = 1
    /\ pc' = "sub"
    /\ UNCHANGED <<obj, ys, t, cur, caller, sval, trace, ret>>

\* lines 156-157: the next split enters sample
SubNext ==
    /\ pc = "sub" /\ k <= Len(splits)
    /\ StartSample(ChunkInput(splits, k), rng)
    /\ starts' = Append(starts, rng)
    /\ caller' = "sub"
    /\ UNCHANGED <<obj, call, sval, splits, k, recons, ret>>

\* lines 158-160
SubCollect ==
    /\ pc = "collect"
    /\ recons' = Append(recons, sval)
    /\ k' = k + 1
    /\ pc' = "sub"
    /\ UNCHANGED <<obj, call, rng, ys, t, cur, caller, sval, splits, starts, trace, ret>>

\* lines 161-162
SubReturn ==
    /\ pc = "sub" /\ k > Len(splits)
    /\ ret' = Ok([val |-> Cat(recons, call.store)])
    /\ pc' = "done"
    /\ UNCHANGED <<obj, call, rng, ys, t, cur, caller, sval, splits, k, recons, starts, trace>>

Finish(c, r) ==
    /\ call' = c
    /\ ret' = r
    /\ pc' = "done"
    /\ UNCHANGED <<obj, ys, t, cur, caller, sval, splits, k, recons, starts>>

CallQSample ==
    /\ pc = "idle" /\ Usable
    /\ \E y_0 \in Signals(obj.total_factor) : \E level \in Levels :
       \E eps \in {None} \cup {Some(e) : e \in Signals(obj.total_factor)} :
       \E seed \in Seeds : \E r \in QSample(obj, y_0, level, eps, seed) :
          /\ Finish([op |-> "q_sample", y_0 |-> y_0, level |-> level, eps |-> eps,
                     seed |-> seed], r)
          /\ rng' = IF r.err = "none" THEN r.rng ELSE seed
    /\ UNCHANGED trace

CallPredictStartFromNoise ==
    /\ pc = "idle" /\ Usable
    /\ \E y \in Signals(obj.total_factor) : \E tt \in Steps :
       \E eps \in Signals(obj.total_factor) :
          Finish([op |-> "predict_start_from_noise", y |-> y, t |-> tt, eps |-> eps],
                 PredictStartFromNoise(obj, y, tt, eps))
    /\ UNCHANGED <<rng, trace>>

CallQPosterior ==
    /\ pc = "idle" /\ Usable
    /\ \E y_start \in Signals(obj.total_factor) : \E y \in Signals(obj.total_factor) :
       \E tt \in Steps :
          Finish([op |-> "q_posterior", y_start |-> y_start, y |-> y, t |-> tt],
                 QPosterior(obj, y_start, y, tt))
    /\ UNCHANGED <<rng, trace>>

CallPMeanVariance ==
    /\ pc = "idle" /\ Usable
    /\ \E mels \in Mels(1) : \E y \in Signals(obj.total_factor) : \E tt \in Steps :
       \E clip \in BOOLEAN :
          Finish([op |-> "p_mean_variance", mels |-> mels, y |-> y, t |-> tt,
                  clip |-> clip],
                 PMeanVariance(obj, mels, y, tt, clip))
    /\ UNCHANGED <<rng, trace>>

CallComputeInverseDynamics ==
    /\ pc = "idle" /\ Usable
    /\ \E mels \in Mels(1) : \E y \in Signals(obj.total_factor) : \E tt \in Steps :
       \E clip \in BOOLEAN : \E seed \in Seeds :
          LET r == ComputeInverseDynamics(obj, mels, y, tt, clip, seed)
          IN /\ Finish([op |-> "compute_inverse_dynamics", mels |-> mels, y |-> y,
                        t |-> tt, clip |-> clip, seed |-> seed], r)
             /\ rng' = IF r.err = "none" THEN r.rng ELSE seed
             /\ trace' = IF r.err = "none"
                         THEN <<[t |-> tt, mels |-> mels, clip |-> clip, yin |-> y,
                                 yout |-> r.val, z |-> r.z, mean |-> r.mean,
                                 rng0 |-> seed, rng1 |-> r.rng]>>
                         ELSE <<>>

CallComputeLoss ==
    /\ pc = "idle" /\ Usable
    /\ \E mels \in Mels(1) : \E y_0 \in Signals(obj.total_factor) : \E seed \in Seeds :
       \E r \in ComputeLoss(obj, mels, y_0, seed) :
          /\ Finish([op |-> "compute_loss", mels |-> mels, y_0 |-> y_0, seed |-> seed], r)
          /\ rng' = IF r.err = "none" THEN r.rng ELSE seed
    /\ UNCHANGED trace

Next ==
    \/ Construct
    \/ CallSample
    \/ SampleStep
    \/ SampleReturn
    \/ CallSubregions
    \/ SubNext
    \/ SubCollect
    \/ SubReturn
    \/ CallQSample
    \/ CallPredictStartFromNoise
    \/ CallQPosterior
    \/ CallPMeanVariance
    \/ CallComputeInverseDynamics
    \/ CallComputeLoss

Spec == Init /\ [][Next]_vars

---------------------------------------------------------------------------
(* Properties *)

\* a schedule as the documentation asks for it: n_iter > 0, 0 < beta_min < beta_max < 1
ValidSchedule(cfg) ==
    /\ cfg.n_iter > 0
    /\ 0 < cfg.betas_range[1] /\ cfg.betas_range[1] < cfg.betas_range[2]
    /\ cfg.betas_range[2] < SCALE

\* the sample call that ran last has returned
SampleReturned == pc = "collect" \/ (pc = "done" /\ call.op = "sample")

\* the generator state the running (or last) sample call started from
SampleStart == IF caller = "top" THEN call.seed ELSE starts[Len(starts)]

InitialNoise == Randn(SampleStart, Len(cur) * obj.total_factor).vals

Last(s) == s[Len(s)]

Min(a, b) == IF a <= b THEN a ELSE b

CeilDiv(a, b) == (a + b - 1) \div b

\* C1: with n_iter > 0 a sample call applies the reverse step once for each
\* t = n_iter-1, ..., 0, in that order, each step reading the state the step
\* before it produced (the initial noise for the first); while the loop runs
\* exactly t+1 steps remain and the next step does not raise, so the call
\* ends after n_iter steps; it returns the state the t = 0 step produced.
C1_EveryStepOnceInOrder ==
    (pc \in {"sample", "collect"} \/ (pc = "done" /\ call.op = "sample")) /\ obj.n_iter > 0 =>
        /\ \A i \in 1..Len(trace) :
              /\ trace[i].t = obj.n_iter - i
              /\ trace[i].yin = IF i = 1 THEN InitialNoise ELSE trace[i - 1].yout
        /\ pc = "sample" =>
              /\ t >= 0 - 1
              /\ Len(trace) + t + 1 = obj.n_iter
              /\ LoopCond(t) =>
                    ComputeInverseDynamics(obj, cur, Last(ys), t, TRUE, rng).err = "none"
        /\ SampleReturned =>
              /\ Len(trace) = obj.n_iter
              /\ trace[Len(trace)].t = 0
              /\ (IF call.store THEN Last(sval) ELSE sval) = trace[Len(trace)].yout

C1_Witness ==
    /\ pc = "done" /\ call.op = "sample" /\ obj.n_iter = MaxIter
    /\ Len(trace) = MaxIter /\ trace[1].t = MaxIter - 1 /\ trace[MaxIter].t = 0
    /\ ret.val = trace[MaxIter].yout

\* C2: sample with store_intermediate_states=True returns n_iter+1 states:
\* the initial noise first, then the result of the reverse step at t = n_iter-i
\* as element i, and its last element is what sample returns without storing
\* when started from the same generator state.
C2_StoredTrajectory ==
    pc = "done" /\ call.op = "sample" /\ call.store =>
        /\ Len(ret.val) = obj.n_iter + 1
        /\ ret.val[1] = Randn(call.seed, Len(call.mels) * obj.total_factor).vals
        /\ \A i \in 1..obj.n_iter :
              /\ trace[i].t = obj.n_iter - i
              /\ ret.val[i + 1] =
                    ComputeInverseDynamics(obj, call.mels, ret.val[i], obj.n_iter - i,
                                           TRUE, trace[i].rng0).val
        /\ Last(ret.val) = Sample(obj, call.mels, FALSE, call.seed).val

C2_Witness ==
    /\ pc = "done" /\ call.op = "sample" /\ call.store /\ obj.n_iter = MaxIter
    /\ Len(ret.val) = MaxIter + 1
    /\ ret.val[1] # Last(ret.val)

\* the waveforms a sample_subregions_parallel call returned: one, or one per
\* stored state
Waveforms(v, store) == IF store THEN {v[j] : j \in 1..Len(v)} ELSE {v}

\* frames of chunk i (from 1) of a sequence of T frames cut every L frames
ChunkLo(i, L) == (i - 1) * L + 1

ChunkHi(i, L, T) == Min(i * L, T)

\* C3: sample_subregions_parallel cuts the T frames into ceil(T/L) consecutive
\* chunks of L frames (the last one possibly shorter), runs sample once per
\* chunk, and the output has T * total_factor samples in which the samples of
\* chunk i stand at the positions of chunk i's frames.
C3_SplitAndConcatenate ==
    pc = "done" /\ call.op = "sample_subregions_parallel" =>
        LET T == Len(call.mels)
            L == obj.mel_segment_length
            f == obj.total_factor
        IN /\ Len(splits) = CeilDiv(T, L)
           /\ Len(recons) = Len(splits) /\ Len(starts) = Len(splits)
           /\ \A i \in 1..Len(splits) :
                 /\ splits[i] = SubSeq(call.mels, ChunkLo(i, L), ChunkHi(i, L, T))
                 /\ Len(splits[i]) = IF i < Len(splits) THEN L ELSE T - (i - 1) * L
           /\ call.store => Len(ret.val) = obj.n_iter + 1
           /\ \A w \in Waveforms(ret.val, call.store) : Len(w) = T * f
           /\ \A i \in 1..Len(splits) :
                 IF call.store
                 THEN \A j \in 1..Len(ret.val) :
                         SubSeq(ret.val[j], (ChunkLo(i, L) - 1) * f + 1, ChunkHi(i, L, T) * f)
                             = recons[i][j]
                 ELSE SubSeq(ret.val, (ChunkLo(i, L) - 1) * f + 1, ChunkHi(i, L, T) * f)
                         = recons[i]

C3_Witness ==
    /\ pc = "done" /\ call.op = "sample_subregions_parallel"
    /\ Len(call.mels) = 3 /\ obj.mel_segment_length = 2
    /\ Len(splits) = 2 /\ Len(splits[2]) = 1
    /\ ~call.store /\ Len(ret.val) = 3 * obj.total_factor
    /\ recons[1] # SubSeq(ret.val, 2 * obj.total_factor + 1, 3 * obj.total_factor) \o
                   SubSeq(ret.val, 2 * obj.total_factor + 1, 3 * obj.total_factor)

\* frames of chunk i of the call's mels, and the draws a sample call over
\* len frames takes from the generator
ChunkOf(i) == SubSeq(call.mels, ChunkLo(i, obj.mel_segment_length),
                     ChunkHi(i, obj.mel_segment_length, Len(call.mels)))

DrawsOfSample(len) ==
    len * obj.total_factor * (IF obj.n_iter > 1 THEN obj.n_iter ELSE 1)

SubregionsReturned == pc = "done" /\ call.op = "sample_subregions_parallel"

\* C4 (as stated): the output for every chunk i is the output of sample on
\* that chunk alone with the call's seed.
C4_ChunkEqualsSampleWithSameSeed ==
    SubregionsReturned /\ ValidSchedule(obj.cfg) =>
        \A i \in 1..Len(recons) :
            recons[i] = Sample(obj, ChunkOf(i), call.store, call.seed).val

\* C4 (amended): the output for chunk i is the output of sample on that chunk
\* alone started from the generator state the preceding chunks left, which is
\* the call's seed advanced by their draws (a count fixed by their number of
\* frames, not by what they contain); for the first chunk that is the seed.
C4_ChunkEqualsSampleFromItsStart ==
    SubregionsReturned =>
        \A i \in 1..Len(recons) :
            LET before == DrawsOfSample((i - 1) * obj.mel_segment_length)
                start == Randn(call.seed, before).rng
            IN /\ starts[i] = start
               /\ recons[i] = Sample(obj, ChunkOf(i), call.store, start).val
               /\ i = 1 => recons[i] = Sample(obj, ChunkOf(i), call.store, call.seed).val

C4_Witness ==
    /\ SubregionsReturned /\ Len(recons) >= 2 /\ obj.n_iter >= 2
    /\ splits[1] # splits[2] /\ Len(splits[1]) = Len(splits[2])
    /\ starts[2] # call.seed
    /\ recons[2] # Sample(obj, ChunkOf(2), call.store, call.seed).val

\* C5: the reverse step adds zero noise at t = 0, so its output is the
\* posterior mean, the generator is left alone and the output is the same
\* from every generator state; at t > 0 it adds fresh draws of the generator
\* scaled by exp(0.5 * log variance).
C5_NoNoiseAtStepZero ==
    \A i \in 1..Len(trace) :
        LET e == trace[i]
            mv == PMeanVariance(obj, e.mels, e.yin, e.t, e.clip)
        IN /\ e.t = 0 =>
                 /\ e.z = Zeros(Len(e.yin))
                 /\ e.yout = mv.mean
                 /\ e.rng1 = e.rng0
                 /\ \A r \in 0..(RngMod - 1) :
                       ComputeInverseDynamics(obj, e.mels, e.yin, 0, e.clip, r).val = e.yout
           /\ e.t > 0 =>
                 /\ e.z = Randn(e.rng0, Len(e.yin)).vals
                 /\ e.rng1 = Randn(e.rng0, Len(e.yin)).rng
                 /\ e.yout = [j \in 1..Len(e.yin) |->
                                 Add(mv.mean[j], Mul(e.z[j], Exp(HalfLog(mv.logvar))))]

C5_Witness ==
    /\ Len(trace) >= 2
    /\ trace[Len(trace)].t = 0 /\ trace[Len(trace)].yout = trace[Len(trace)].mean
    /\ trace[1].t > 0 /\ trace[1].yout # trace[1].mean

\* C6 (as stated): q_sample returns noise_level * y0 + sqrt(1 - noise_level^2) * eps.
C6_QSampleFormula ==
    pc = "done" /\ call.op = "q_sample" /\ ret.err = "none" /\ ValidSchedule(obj.cfg) =>
        ret.val = [i \in 1..Len(call.y_0) |->
                      Add(Mul(ret.level, call.y_0[i]),
                          Mul(Sqrt(Sub(SCALE, Mul(ret.level, ret.level))), ret.eps[i]))]

Close(a, b) == \A i \in 1..Len(a) : Abs(a[i] - b[i]) <= SCALE \div 50

\* C7 (as stated): for at least one step t, diffusing any y0 with any eps at
\* the level sqrt_alphas_cumprod_prev[t] and predicting the start at step t
\* from the same eps gives y0 back (within tolerance).
C7_RoundTrip ==
    obj.state = "ok" /\ ValidSchedule(obj.cfg) =>
        \E tt \in 0..(obj.n_iter - 1) :
            \A y_0 \in Signals(obj.total_factor) : \A eps \in Signals(obj.total_factor) :
                \A q \in QSample(obj, y_0, Some(At(obj.sch.sqrt_alphas_cumprod_prev, tt)),
                                 Some(eps), 0) :
                    Close(PredictStartFromNoise(obj, q.val, tt, eps).val, y_0)

\* C8 (as stated): a noise level the caller supplies is the one q_sample uses,
\* whether or not eps was supplied.
C8_SuppliedLevelIsUsed ==
    pc = "done" /\ call.op = "q_sample" /\ call.level.some /\ ret.err = "none"
        /\ ValidSchedule(obj.cfg) => ret.level = call.level.v

InvalidSchedule(cfg) ==
    \/ cfg.n_iter <= 0
    \/ cfg.betas_range[1] >= cfg.betas_range[2]
    \/ cfg.betas_range[1] <= 0 \/ cfg.betas_range[1] >= SCALE
    \/ cfg.betas_range[2] <= 0 \/ cfg.betas_range[2] >= SCALE

\* C9 (as stated): construction fails whenever the schedule is invalid.
C9_InvalidScheduleRejected ==
    obj.state # "none" /\ InvalidSchedule(obj.cfg) => obj.state = "error"

\* C9 (amended): construction fails exactly when n_iter is negative or the
\* product of the factors differs from the hop length; n_iter = 0,
\* beta_min >= beta_max and bounds outside (0,1) are accepted and an object
\* is produced.
C9_OnlyFactorAndNegativeStepsRejected ==
    obj.state # "none" =>
        /\ obj.state = "error" <=>
              (obj.cfg.n_iter < 0 \/ Product(obj.cfg.factors) # obj.cfg.hop_length)
        /\ obj.state = "ok" => obj.n_iter = obj.cfg.n_iter

C9_Witness ==
    /\ obj.state = "ok" /\ obj.cfg.n_iter > 0
    /\ obj.cfg.betas_range[1] >= obj.cfg.betas_range[2]
    /\ Len(obj.sch.betas) = obj.cfg.n_iter

StepOps == {"predict_start_from_noise", "q_posterior", "p_mean_variance",
            "compute_inverse_dynamics"}

StepCallReturned == pc = "done" /\ call.op \in StepOps

\* C10 (as stated): a reverse-step operation called with t outside
\* [0, n_iter) raises.
C10_OutOfRangeStepRaises ==
    StepCallReturned /\ ValidSchedule(obj.cfg) /\ (call.t < 0 \/ call.t >= obj.n_iter) =>
        ret.err # "none"

\* what the operation returns at step j (0 <= j < n_iter) when the predictor
\* is conditioned on the noise level `level`
StepResultAt(j, level) ==
    IF call.op = "predict_start_from_noise"
    THEN PredictStartFromNoise(obj, call.y, j, call.eps)
    ELSE IF call.op = "q_posterior"
    THEN QPosterior(obj, call.y_start, call.y, j)
    ELSE LET eps_recon == NN(obj, call.mels, call.y, level)
             y_recon == PredictStartFromNoise(obj, call.y, j, eps_recon).val
             mv == QPosterior(obj,
                       IF call.clip
                       THEN [i \in 1..Len(call.y) |-> Clamp(y_recon[i], 0 - SCALE, SCALE)]
                       ELSE y_recon,
                       call.y, j)
         IN IF call.op = "p_mean_variance" THEN mv
            ELSE Ok([val |-> mv.mean, z |-> Zeros(Len(call.y)), mean |-> mv.mean,
                     rng |-> call.seed])

\* C10 (amended): a reverse-step operation raises IndexError when
\* t >= n_iter or t < -n_iter; for -n_iter <= t < 0 it raises nothing and
\* returns the value of step t + n_iter (the predictor being conditioned on
\* sqrt_alphas_cumprod_prev[t + n_iter + 1]), compute_inverse_dynamics adding
\* no noise.
C10_OnlyBeyondWrapRaises ==
    StepCallReturned =>
        LET n == obj.n_iter
        IN /\ (call.t >= n \/ call.t < 0 - n) => ret.err = "IndexError"
           /\ (call.t >= 0 /\ call.t < n) => ret.err = "none"
           /\ (call.t < 0 /\ call.t >= 0 - n) =>
                 ret = StepResultAt(call.t + n,
                                    obj.sch.sqrt_alphas_cumprod_prev[call.t + n + 2])

C10_Witness ==
    /\ StepCallReturned /\ call.op = "compute_inverse_dynamics"
    /\ obj.n_iter >= 2 /\ call.t = 0 - 1 /\ ret.err = "none"
    /\ ret.val = ret.mean

====
